---- MODULE Spec2Model ----
(***************************************************************************)
(* Model of the leaderboard service's storage layer                        *)
(* (src/src/leaderboard/database.py, class LeaderboardDatabase) on top of  *)
(* a DynamoDB table whose primary key is (game_id HASH, sort_key RANGE).   *)
(*                                                                         *)
(* Representation choices                                                  *)
(*  - A string that the code builds and the table compares (the sort key,  *)
(*    the stored number, the stored timestamp) is a sequence of character  *)
(*    codes, so that string comparison is the byte-wise one DynamoDB uses. *)
(*  - A float score is a decimal with four fractional digits, kept as      *)
(*    [whole, frac] with frac counted in 1/10000 (both carry the sign).    *)
(*    A fourth digit of 5 is left out of every input set: there the        *)
(*    result of the 3-decimal formatting depends on the binary expansion.  *)
(*  - A datetime is a natural number of clock ticks.                       *)
(*  - table.query is one page holding the game's whole partition.          *)
(*  - ScoreRecord / LeaderboardEntry carry the timestamp under the name    *)
(*    database.py reads and writes (created_at_timestamp).                 *)
(*                                                                         *)
(* State                                                                   *)
(*  - table: the items of the DynamoDB table.                              *)
(*  - submitted: the records whose submit_score returned (history).        *)
(*  - result: what the last call on LeaderboardDatabase returned or raised.*)
(*  - now: the server clock read by datetime.now(UTC).                     *)
(*  - response: what the request handler answered to the last request.     *)
(*  - service: what the last call on LeaderboardService was given, what it *)
(*    handed to the database and what it returned or raised.               *)
(*  - calls: the submit_score calls that run concurrently, each with its   *)
(*    position and the item it has built.                                  *)
(***************************************************************************)
EXTENDS Integers, Sequences, FiniteSets, TLC

VARIABLES table, submitted, result, now, response, calls, service

vars == <<table, submitted, result, now, response, calls, service>>

(***************************************************************************)
(* Bounds of the model.                                                    *)
(***************************************************************************)
MaxSubmits == 2
LimitBound == 2
\* Calls on the service in one behaviour.
MaxCalls == 3

(***************************************************************************)
(* Enumerations (models.py) and the ranking types get_leaderboard knows.   *)
(***************************************************************************)
ScoreType == {"HIGH_SCORE", "FASTEST_TIME", "LONGEST_TIME"}

LabelType == {"INITIALS", "USERNAME", "TEAM_NAME", "CUSTOM"}

LeaderboardType == {"HIGH_SCORE", "FASTEST_TIME", "LONGEST_TIME"}

(***************************************************************************)
(* Character codes and strings.                                            *)
(***************************************************************************)
Chr(d) == 48 + d

Dot == 46

Hash == 35

Minus == 45

\* The value of a ScoreType member as a string of character codes.
TagChars(t) ==
    CASE t = "HIGH_SCORE"   -> <<72, 73, 71, 72, 95, 83, 67, 79, 82, 69>>
      [] t = "FASTEST_TIME" -> <<70, 65, 83, 84, 69, 83, 84, 95, 84, 73, 77, 69>>
      [] t = "LONGEST_TIME" -> <<76, 79, 78, 71, 69, 83, 84, 95, 84, 73, 77, 69>>

RECURSIVE StrLess(_, _)
\* Byte-wise string order (a proper prefix is smaller).
StrLess(a, b) ==
    IF b = <<>> THEN FALSE
    ELSE IF a = <<>> THEN TRUE
    ELSE IF Head(a) # Head(b) THEN Head(a) < Head(b)
    ELSE StrLess(Tail(a), Tail(b))

RECURSIVE Digits(_)
\* Decimal digits of a natural number, most significant first.
Digits(n) == IF n < 10 THEN <<Chr(n)>> ELSE Digits(n \div 10) \o <<Chr(n % 10)>>

RECURSIVE Zeros(_)
Zeros(n) == IF n <= 0 THEN <<>> ELSE <<Chr(0)>> \o Zeros(n - 1)

RECURSIVE ParseNat(_, _)
\* int() of a string of digits, acc being the value read so far.
ParseNat(s, acc) ==
    IF s = <<>> THEN acc ELSE ParseNat(Tail(s), 10 * acc + (Head(s) - 48))

(***************************************************************************)
(* Scores.                                                                 *)
(***************************************************************************)
Abs(x) == IF x < 0 THEN -x ELSE x

IsNeg(s) == s.whole < 0 \/ s.frac < 0

ScoreLT(a, b) == a.whole < b.whole \/ (a.whole = b.whole /\ a.frac < b.frac)

Sc(w, f) == [whole |-> w, frac |-> f]

\* Mutant of Format015_3f: f"{score:.3f}", the width and zero padding dropped.
Format015_3f_NoPad(s) ==
    LET m0    == (Abs(s.frac) + 5) \div 10
        carry == IF m0 = 1000 THEN 1 ELSE 0
        milli == IF m0 = 1000 THEN 0 ELSE m0
    IN  (IF IsNeg(s) THEN <<Minus>> ELSE <<>>)
        \o Digits(Abs(s.whole) + carry) \o <<Dot>>
        \o <<Chr(milli \div 100), Chr((milli \div 10) % 10), Chr(milli % 10)>>

\* Mutant of Format015_3f: f"{score:015.2f}", two decimals instead of three.
Format015_3f_TwoDecimals(s) ==
    LET c0    == (Abs(s.frac) + 50) \div 100
        carry == IF c0 = 100 THEN 1 ELSE 0
        centi == IF c0 = 100 THEN 0 ELSE c0
        body  == Digits(Abs(s.whole) + carry) \o <<Dot>>
                 \o <<Chr(centi \div 10), Chr(centi % 10)>>
        sign  == IF IsNeg(s) THEN <<Minus>> ELSE <<>>
    IN  sign \o Zeros(15 - Len(sign) - Len(body)) \o body

\* f"{score:015.3f}": sign, zero padding up to 15 characters, the integer
\* part, a point and three decimals (rounded to nearest).
Format015_3f(s) ==
    LET m0    == (Abs(s.frac) + 5) \div 10
        carry == IF m0 = 1000 THEN 1 ELSE 0
        milli == IF m0 = 1000 THEN 0 ELSE m0
        body  == Digits(Abs(s.whole) + carry) \o <<Dot>>
                 \o <<Chr(milli \div 100), Chr((milli \div 10) % 10), Chr(milli % 10)>>
        sign  == IF IsNeg(s) THEN <<Minus>> ELSE <<>>
    IN  sign \o Zeros(15 - Len(sign) - Len(body)) \o body

RECURSIVE StripZeros(_)
StripZeros(ds) ==
    IF Len(ds) > 1 /\ ds[Len(ds)] = Chr(0) THEN StripZeros(SubSeq(ds, 1, Len(ds) - 1))
    ELSE ds

\* Mutant of StrFloat: the score written with three decimals.
StrFloat_ThreeDecimals(s) ==
    LET m0    == (Abs(s.frac) + 5) \div 10
        carry == IF m0 = 1000 THEN 1 ELSE 0
        milli == IF m0 = 1000 THEN 0 ELSE m0
    IN  (IF IsNeg(s) THEN <<Minus>> ELSE <<>>)
        \o Digits(Abs(s.whole) + carry) \o <<Dot>>
        \o <<Chr(milli \div 100), Chr((milli \div 10) % 10), Chr(milli % 10)>>

\* str(score) of a float: the shortest decimal that reads back as the score.
StrFloat(s) ==
    LET f == Abs(s.frac)
        fd == <<Chr(f \div 1000), Chr((f \div 100) % 10), Chr((f \div 10) % 10), Chr(f % 10)>>
    IN  (IF IsNeg(s) THEN <<Minus>> ELSE <<>>)
        \o Digits(Abs(s.whole)) \o <<Dot>> \o StripZeros(fd)

\* float(str(item["score"])): reads a decimal string back into a float.
ParseFloat(str) ==
    LET neg  == str # <<>> /\ Head(str) = Minus
        u    == IF neg THEN Tail(str) ELSE str
        dots == {i \in 1..Len(u) : u[i] = Dot}
        p    == IF dots = {} THEN Len(u) + 1 ELSE CHOOSE i \in dots : TRUE
        ip   == SubSeq(u, 1, p - 1)
        fp   == SubSeq(u, p + 1, Len(u))
        fp4  == SubSeq(fp \o Zeros(4 - Len(fp)), 1, 4)
        sg   == IF neg THEN -1 ELSE 1
    IN  Sc(sg * ParseNat(ip, 0), sg * ParseNat(fp4, 0))

\* datetime.isoformat() and datetime.fromisoformat().
IsoFormat(t) == Digits(t)

FromIsoFormat(str) == ParseNat(str, 0)

(***************************************************************************)
(* The inputs the operations are called with.                              *)
(***************************************************************************)
Games == {"snake_classic", "race_game"}

\* Who submits and when: the label, its type and the record's timestamp.
Submitters == {[label |-> "KMW", label_type |-> "INITIALS", at |-> 1],
               [label |-> "team_amy", label_type |-> "TEAM_NAME", at |-> 2]}

Scores == {Sc(1, 0), Sc(1, 2), Sc(2, 0)}

\* ScoreRecord, with the fields submit_score reads from it.
ScoreRecord(game_ids, submitters, scores, score_types) ==
    {[game_id |-> g, label |-> p.label, label_type |-> p.label_type, score |-> s,
      score_type |-> t, created_at_timestamp |-> p.at] :
        g \in game_ids, p \in submitters, s \in scores, t \in score_types}

\* snake_classic receives records of every score type, race_game times only.
ScoreRecords ==
    ScoreRecord({"snake_classic"}, Submitters, Scores, ScoreType)
        \cup ScoreRecord({"race_game"}, Submitters, Scores, {"FASTEST_TIME"})

\* The largest score the key design is specified for.
MAX_SCORE == 999999999

\* Scores across the supported range 0..MAX_SCORE, for the sort-key checks.
KeyScores == {Sc(0, 0), Sc(0, 10), Sc(0, 9996), Sc(1, 0), Sc(1, 2), Sc(9, 0),
              Sc(10, 0), Sc(34, 7000), Sc(103, 0), Sc(245, 8000),
              Sc(MAX_SCORE - 1, 9990), Sc(MAX_SCORE, 0)}

KeyRecords ==
    ScoreRecord({"snake_classic"}, {p \in Submitters : p.at = 1}, KeyScores, ScoreType)

\* Scores inside and outside the supported range 0..MAX_SCORE.
RangeScores == {Sc(-1, 0), Sc(0, -10), Sc(0, 0), Sc(1, 0), Sc(MAX_SCORE, 0),
                Sc(MAX_SCORE, 10), Sc(MAX_SCORE + 1, 0)}

RangeRecords == ScoreRecord({"snake_classic"}, Submitters, RangeScores, ScoreType)

MIN_LIMIT == 1

MAX_LIMIT == 100

\* The limits the request handler lets through (1..100), the small ones and the largest.
Limits == (MIN_LIMIT..LimitBound) \cup {MAX_LIMIT}

\* Limits below, inside and above 1..100, as a caller of the database may pass.
AnyLimits == {MIN_LIMIT - 2, MIN_LIMIT - 1, MIN_LIMIT, MAX_LIMIT, MAX_LIMIT + 1}

(***************************************************************************)
(* The DynamoDB table: a set of items, at most one per (game_id, sort_key).*)
(***************************************************************************)
\* table.put_item(Item=item): creates the item or replaces the one with its key.
\* Mutant of PutItem: the write replaces the game's whole partition.
PutItem_ReplacesPartition(tbl, item) ==
    {i \in tbl : i.game_id # item.game_id} \cup {item}

\* Mutant of PutItem: a write to an existing key is dropped.
PutItem_FirstWriteWins(tbl, item) ==
    IF \E i \in tbl : i.game_id = item.game_id /\ i.sort_key = item.sort_key THEN tbl
    ELSE tbl \cup {item}

PutItem(tbl, item) ==
    {i \in tbl : ~(i.game_id = item.game_id /\ i.sort_key = item.sort_key)} \cup {item}

RECURSIVE AscendingBySortKey(_)
AscendingBySortKey(items) ==
    IF items = {} THEN <<>>
    ELSE LET m == CHOOSE i \in items : \A j \in items : ~StrLess(j.sort_key, i.sort_key)
         IN  <<m>> \o AscendingBySortKey(items \ {m})

\* Mutant of Query: a scan of the whole table, the key condition dropped.
Query_AllGames(tbl, game_id) == AscendingBySortKey(tbl)

\* table.query(KeyConditionExpression=Key("game_id").eq(game_id),
\* ScanIndexForward=True)["Items"]: the partition in ascending sort-key order.
Query(tbl, game_id) == AscendingBySortKey({i \in tbl : i.game_id = game_id})

(***************************************************************************)
(* LeaderboardDatabase.submit_score                                        *)
(***************************************************************************)
\* sort_key = f"{score_type_value}#{sort_key_score:015.3f}", the raw score.
SortKey(score_record) ==
    TagChars(score_record.score_type) \o <<Hash>> \o Format015_3f(score_record.score)

Item(score_record) ==
    [game_id    |-> score_record.game_id,
     sort_key   |-> SortKey(score_record),
     label      |-> score_record.label,
     label_type |-> score_record.label_type,
     score      |-> StrFloat(score_record.score),
     score_type |-> score_record.score_type,
     timestamp  |-> IsoFormat(score_record.created_at_timestamp)]

NoResult == [op |-> "none", game_id |-> "", leaderboard_type |-> "", limit |-> 0,
             entries |-> <<>>, client_error |-> FALSE, raised |-> "none"]

submit_score(score_record) ==
    /\ Cardinality(submitted) < MaxSubmits
    /\ table' = PutItem(table, Item(score_record))
    /\ submitted' = submitted \cup {score_record}
    /\ result' = [NoResult EXCEPT !.op = "submit_score"]
    /\ UNCHANGED <<now, response, calls, service>>

(***************************************************************************)
(* LeaderboardDatabase.get_leaderboard                                     *)
(***************************************************************************)
\* Mutant of RawEntry: the stored label_type text is passed on as it is.
RawEntry_NoFallback(item) ==
    [label      |-> item.label,
     label_type |-> IF "label_type" \in DOMAIN item THEN item.label_type ELSE "custom",
     score      |-> ParseFloat(item.score),
     created_at_timestamp |-> FromIsoFormat(item.timestamp)]

\* One element of raw_entries: item.get("label_type", "custom") turned into a
\* LabelType, CUSTOM when the text is not the value of a member.
RawEntry(item) ==
    [label      |-> item.label,
     label_type |-> LET label_type_str == IF "label_type" \in DOMAIN item
                                          THEN item.label_type ELSE "custom"
                    IN  IF label_type_str \in LabelType THEN label_type_str ELSE "CUSTOM",
     score      |-> ParseFloat(item.score),
     created_at_timestamp |-> FromIsoFormat(item.timestamp)]

\* Whether a sorts strictly before b under key=score and the given reverse.
Before(reverse, a, b) ==
    IF reverse THEN ScoreLT(b.score, a.score) ELSE ScoreLT(a.score, b.score)

RECURSIVE Insert(_, _, _)
Insert(sorted, e, reverse) ==
    IF sorted = <<>> THEN <<e>>
    ELSE IF Before(reverse, e, Head(sorted)) THEN <<e>> \o sorted
    ELSE <<Head(sorted)>> \o Insert(Tail(sorted), e, reverse)

RECURSIVE SortInto(_, _, _)
SortInto(acc, rest, reverse) ==
    IF rest = <<>> THEN acc
    ELSE SortInto(Insert(acc, Head(rest), reverse), Tail(rest), reverse)

\* list.sort(key=lambda x: x["score"], reverse=reverse): stable either way.
ListSort(entries, reverse) == SortInto(<<>>, entries, reverse)

\* Mutant of SortForType: FASTEST_TIME sorted with reverse=True as well.
SortForType_AllReverse(raw_entries, leaderboard_type) == ListSort(raw_entries, TRUE)

\* The sort get_leaderboard applies for a leaderboard type.
SortForType(raw_entries, leaderboard_type) ==
    IF leaderboard_type \in {"HIGH_SCORE", "LONGEST_TIME"} THEN ListSort(raw_entries, TRUE)
    ELSE IF leaderboard_type = "FASTEST_TIME" THEN ListSort(raw_entries, FALSE)
    ELSE raw_entries

\* Mutant of SliceTo: raw_entries[-limit:], the tail of the sorted list.
SliceTo_Tail(seq, limit) ==
    LET n == Len(seq)
        k == IF limit < n THEN limit ELSE n
    IN  SubSeq(seq, n - k + 1, n)

\* raw_entries[:limit]
SliceTo(seq, limit) ==
    LET n == Len(seq)
        k == IF limit >= 0 THEN (IF limit < n THEN limit ELSE n)
             ELSE (IF n + limit > 0 THEN n + limit ELSE 0)
    IN  SubSeq(seq, 1, k)

\* Mutant of Enumerate: enumerate() without its start argument, ranks from 0.
Enumerate_FromZero(seq) ==
    [i \in 1..Len(seq) |->
        [rank |-> i - 1, label |-> seq[i].label, label_type |-> seq[i].label_type,
         score |-> seq[i].score, created_at_timestamp |-> seq[i].created_at_timestamp]]

\* enumerate(raw_entries[:limit], 1) into LeaderboardEntry objects.
Enumerate(seq) ==
    [i \in 1..Len(seq) |->
        [rank |-> i, label |-> seq[i].label, label_type |-> seq[i].label_type,
         score |-> seq[i].score, created_at_timestamp |-> seq[i].created_at_timestamp]]

\* The list get_leaderboard returns.
Leaderboard(tbl, game_id, leaderboard_type, limit) ==
    LET items       == Query(tbl, game_id)
        raw_entries == [i \in 1..Len(items) |-> RawEntry(items[i])]
    IN  Enumerate(SliceTo(SortForType(raw_entries, leaderboard_type), limit))

\* Mutant of get_leaderboard: the items read are deleted from the table.
get_leaderboard_Consuming(game_id, leaderboard_type, limit) ==
    /\ result' = [op |-> "get_leaderboard", game_id |-> game_id,
                  leaderboard_type |-> leaderboard_type, limit |-> limit,
                  entries |-> Leaderboard(table, game_id, leaderboard_type, limit),
                  client_error |-> FALSE, raised |-> "none"]
    /\ table' = {i \in table : i.game_id # game_id}
    /\ UNCHANGED <<submitted, now, response, calls, service>>

get_leaderboard(game_id, leaderboard_type, limit) ==
    /\ result' = [op |-> "get_leaderboard", game_id |-> game_id,
                  leaderboard_type |-> leaderboard_type, limit |-> limit,
                  entries |-> Leaderboard(table, game_id, leaderboard_type, limit),
                  client_error |-> FALSE, raised |-> "none"]
    /\ UNCHANGED <<table, submitted, now, response, calls, service>>

(***************************************************************************)
(* Specifications.                                                         *)
(***************************************************************************)
(***************************************************************************)
(* get_all_score_types_for_game, and a table that already holds items      *)
(* written by an earlier release, whose score_type values are not members  *)
(* of ScoreType.                                                           *)
(***************************************************************************)
\* Items with score_type "high_score" (key "high_score#00999999896.000") and
\* "bogus" (key "bogus#1").
LegacyItems ==
    {[game_id |-> "snake_classic", sort_key |-> <<104, 105, 103, 104, 95, 115, 99, 111, 114, 101, 35, 48, 48, 57, 57, 57, 57, 57, 57, 56, 57, 54, 46, 48, 48, 48>>,
      label |-> "OLD", label_type |-> "INITIALS", score |-> <<49, 48, 51, 46, 48>>,
      score_type |-> "high_score", timestamp |-> <<49>>],
     [game_id |-> "snake_classic", sort_key |-> <<98, 111, 103, 117, 115, 35, 49>>,
      label |-> "OLD", label_type |-> "INITIALS", score |-> <<49, 46, 48>>,
      score_type |-> "bogus", timestamp |-> <<49>>],
     [game_id |-> "race_game", sort_key |-> <<104, 105, 103, 104, 95, 115, 99, 111, 114, 101, 35, 48, 48, 57, 57, 57, 57, 57, 57, 56, 57, 54, 46, 48, 48, 48>>,
      label |-> "OLD", label_type |-> "INITIALS", score |-> <<49, 48, 51, 46, 48>>,
      score_type |-> "high_score", timestamp |-> <<49>>]}

\* The loop without the except clause: every stored value is kept.
KnownScoreTypes_NoSkip(items) == {items[i].score_type : i \in 1..Len(items)}

\* score_types.add(ScoreType(item["score_type"])), ValueError skipped.
KnownScoreTypes(items) ==
    {items[i].score_type : i \in 1..Len(items)} \cap ScoreType

\* list(score_types): the members of a set in any order.
ListOf(S) ==
    {l \in [1..Cardinality(S) -> S] : \A i, j \in 1..Cardinality(S) : l[i] = l[j] => i = j}

get_all_score_types_for_game(game_id) ==
    /\ \E score_types \in ListOf(KnownScoreTypes(Query(table, game_id))) :
           result' = [op |-> "get_all_score_types_for_game", game_id |-> game_id,
                      leaderboard_type |-> "", limit |-> 0, entries |-> score_types,
                      client_error |-> FALSE, raised |-> "none"]
    /\ UNCHANGED <<table, submitted, now, response, calls, service>>

(***************************************************************************)
(* The calls when the store fails: put_item or query raises ClientError.   *)
(* result.client_error records that the store call of the operation        *)
(* raised, result.raised what the operation raised to its caller.          *)
(***************************************************************************)
\* The except clause left out of effect: the error is swallowed.
OnClientError_Swallowed(op) == "none"

\* except ClientError as e: raise RuntimeError(...) from e
OnClientError(op) == "RuntimeError"

Failed(op, game_id, leaderboard_type, limit) ==
    [op |-> op, game_id |-> game_id, leaderboard_type |-> leaderboard_type,
     limit |-> limit, entries |-> <<>>, client_error |-> TRUE,
     raised |-> OnClientError(op)]

submit_score_client_error(score_record) ==
    /\ result' = Failed("submit_score", "", "", 0)
    /\ UNCHANGED <<table, submitted, now, response, calls, service>>

get_leaderboard_client_error(game_id, leaderboard_type, limit) ==
    /\ result' = Failed("get_leaderboard", game_id, leaderboard_type, limit)
    /\ UNCHANGED <<table, submitted, now, response, calls, service>>

get_all_score_types_for_game_client_error(game_id) ==
    /\ result' = Failed("get_all_score_types_for_game", game_id, "", 0)
    /\ UNCHANGED <<table, submitted, now, response, calls, service>>

(***************************************************************************)
(* Concurrent submit_score calls (one Lambda invocation each).  A call     *)
(* builds its item from its own record, then sends it with put_item, which *)
(* the table applies atomically.  order counts the writes as the table     *)
(* applied them.                                                           *)
(***************************************************************************)
Callers == {"a", "b"}

NoCall == [pc |-> "idle", score_record |-> <<>>, item |-> <<>>, order |-> 0]

NoCalls == [c \in Callers |-> NoCall]

\* Lines 36-66: key and item are computed from the call's own argument.
call_submit_score(c, score_record) ==
    /\ calls[c].pc = "idle"
    /\ calls' = [calls EXCEPT ![c] = [pc |-> "put_item", score_record |-> score_record,
                                      item |-> Item(score_record), order |-> 0]]
    /\ UNCHANGED <<table, submitted, result, now, response, service>>

\* Line 68: self.table.put_item(Item=item), then the call returns.
put_item(c) ==
    /\ calls[c].pc = "put_item"
    /\ table' = PutItem(table, calls[c].item)
    /\ submitted' = submitted \cup {calls[c].score_record}
    /\ calls' = [calls EXCEPT ![c].pc = "done",
                              ![c].order = 1 + Cardinality({d \in Callers :
                                                              calls[d].pc = "done"})]
    /\ result' = [NoResult EXCEPT !.op = "submit_score"]
    /\ UNCHANGED <<now, response, service>>

\* Items of an earlier release: without a label_type attribute (key
\* "HIGH_SCORE#00000000003.000") and with label_type "initials" (key
\* "HIGH_SCORE#00000000004.000").
LegacyLabelItems ==
    {[game_id |-> "snake_classic",
      sort_key |-> TagChars("HIGH_SCORE") \o <<Hash>> \o Format015_3f(Sc(3, 0)),
      label |-> "OLD", score |-> StrFloat(Sc(3, 0)), score_type |-> "HIGH_SCORE",
      timestamp |-> IsoFormat(1)],
     [game_id |-> "snake_classic",
      sort_key |-> TagChars("HIGH_SCORE") \o <<Hash>> \o Format015_3f(Sc(4, 0)),
      label |-> "OLD", label_type |-> "initials", score |-> StrFloat(Sc(4, 0)),
      score_type |-> "HIGH_SCORE", timestamp |-> IsoFormat(1)]}

\* No request answered yet.
NoResponse == [request |-> "none", params |-> <<>>, status |-> 0, db_called |-> FALSE]

(***************************************************************************)
(* The HTTP handler, GET /games/leaderboards/v1/<game_id>.  A query string *)
(* parameter is <<>> when the request omits it and <<text>> when it is     *)
(* present, text being a string of character codes.                        *)
(***************************************************************************)
Space == 32

Plus == 43

Underscore == 95

IsDigit(c) == c \in 48..57

\* str.strip() for blanks.
RECURSIVE LStrip(_)
LStrip(str) == IF str # <<>> /\ Head(str) = Space THEN LStrip(Tail(str)) ELSE str

RECURSIVE RStrip(_)
RStrip(str) ==
    IF str # <<>> /\ str[Len(str)] = Space THEN RStrip(SubSeq(str, 1, Len(str) - 1))
    ELSE str

Strip(str) == RStrip(LStrip(str))

\* The characters of str that are not c, in order.
RECURSIVE Without(_, _)
Without(str, c) ==
    IF str = <<>> THEN <<>>
    ELSE IF Head(str) = c THEN Without(Tail(str), c)
    ELSE <<Head(str)>> \o Without(Tail(str), c)

\* int(text): blanks around, an optional sign, digits with single
\* underscores between them.  ok = FALSE stands for ValueError.
ParseInt(text) ==
    LET t    == Strip(text)
        sgn  == t # <<>> /\ Head(t) \in {Plus, Minus}
        body == IF sgn THEN Tail(t) ELSE t
        wf   == /\ body # <<>>
                /\ IsDigit(body[1]) /\ IsDigit(body[Len(body)])
                /\ \A i \in 1..Len(body) : IsDigit(body[i]) \/ body[i] = Underscore
                /\ \A i \in 1..(Len(body) - 1) :
                       ~(body[i] = Underscore /\ body[i + 1] = Underscore)
        mag  == ParseNat(Without(body, Underscore), 0)
    IN  IF ~wf THEN [ok |-> FALSE, value |-> 0]
        ELSE [ok |-> TRUE, value |-> IF sgn /\ Head(t) = Minus THEN -mag ELSE mag]

\* ScoreType(value): the members whose value is the text (none: ValueError).
ScoreTypeOf(text) == {t \in ScoreType : TagChars(t) = text}

\* "high_score" and "10", the handler's defaults for omitted parameters.
DefaultScoreTypeParam == <<104, 105, 103, 104, 95, 115, 99, 111, 114, 101>>

DefaultLimitParam == <<49, 48>>

get_query_string_value(param, default) == IF param = <<>> THEN default ELSE param[1]

\* The handler's range check with the upper bound left out.
LimitRejected_NoUpperBound(limit) == limit < MIN_LIMIT

\* if limit < 1 or limit > 100: raise ValueError()
LimitRejected(limit) == limit < MIN_LIMIT \/ limit > MAX_LIMIT

\* Query strings: score_type values.
KnownScoreTypeParams == {TagChars(t) : t \in ScoreType}

\* "bogus" and "high_score"
UnknownScoreTypeParams == {<<98, 111, 103, 117, 115>>, DefaultScoreTypeParam}

\* "1", "2", "100", " 5 ", "1_0"
LimitParamsInRange == {<<49>>, <<50>>, <<49, 48, 48>>, <<32, 53, 32>>, <<49, 95, 48>>}

\* "0", "101", "150", "-1"
LimitParamsOutOfRange == {<<48>>, <<49, 48, 49>>, <<49, 53, 48>>, <<45, 49>>}

\* "abc", "1.5", "", "1__0"
LimitParamsNotInteger == {<<97, 98, 99>>, <<49, 46, 53>>, <<>>, <<49, 95, 95, 48>>}

Optional(S) == {<<>>} \cup {<<x>> : x \in S}

\* Requests that vary one parameter and send or omit the other.
QueryStrings ==
    [score_type : Optional(KnownScoreTypeParams \cup UnknownScoreTypeParams),
     limit : Optional({<<50>>})]
    \cup
    [score_type : Optional({TagChars("HIGH_SCORE")}),
     limit : Optional(LimitParamsInRange \cup LimitParamsOutOfRange
                      \cup LimitParamsNotInteger)]

BadRequest(request, params) ==
    /\ response' = [request |-> request, params |-> params, status |-> 400,
                    db_called |-> FALSE]
    /\ UNCHANGED <<table, submitted, result, now, calls, service>>

handler_get_leaderboard(game_id, query) ==
    LET score_type_param == get_query_string_value(query.score_type, DefaultScoreTypeParam)
        limit_param      == get_query_string_value(query.limit, DefaultLimitParam)
        limit            == ParseInt(limit_param)
    IN  IF ScoreTypeOf(score_type_param) = {} THEN BadRequest("GET", query)
        ELSE IF ~limit.ok \/ LimitRejected(limit.value) THEN BadRequest("GET", query)
        ELSE \E score_type \in ScoreTypeOf(score_type_param) :
                /\ result' = [op |-> "get_leaderboard", game_id |-> game_id,
                              leaderboard_type |-> score_type, limit |-> limit.value,
                              entries |-> Leaderboard(table, game_id, score_type,
                                                      limit.value),
                              client_error |-> FALSE, raised |-> "none"]
                /\ response' = [request |-> "GET", params |-> query, status |-> 200,
                                db_called |-> TRUE]
                /\ UNCHANGED <<table, submitted, now, calls, service>>

(***************************************************************************)
(* The HTTP handler, POST /games/scores/v1.  The JSON body carries texts   *)
(* as strings of character codes; label_type is <<>> when omitted.         *)
(***************************************************************************)
MIN_TEXT_LENGTH == 1

MAX_GAME_ID_LENGTH == 50

MAX_LABEL_LENGTH == 100

INITIALS_LENGTH == 3

IsUpper(c) == c \in 65..90

IsAlpha(c) == IsUpper(c) \/ c \in 97..122

\* str.isalnum(): not empty and letters and digits only.
IsAlnum(str) == str # <<>> /\ \A i \in 1..Len(str) : IsAlpha(str[i]) \/ IsDigit(str[i])

\* str.lower()
Lower(str) == [i \in 1..Len(str) |-> IF IsUpper(str[i]) THEN str[i] + 32 ELSE str[i]]

\* The value of a LabelType member as a string of character codes.
LabelTagChars(t) ==
    CASE t = "INITIALS"  -> <<73, 78, 73, 84, 73, 65, 76, 83>>
      [] t = "USERNAME"  -> <<85, 83, 69, 82, 78, 65, 77, 69>>
      [] t = "TEAM_NAME" -> <<84, 69, 65, 77, 95, 78, 65, 77, 69>>
      [] t = "CUSTOM"    -> <<67, 85, 83, 84, 79, 77>>

\* LabelType(value): the members whose value is the text.
LabelTypeOf(text) == {t \in LabelType : LabelTagChars(t) = text}

\* The game ids and labels of the requests, as the strings the records hold.
TextOf(text) ==
    CASE text = <<115, 110, 97, 107, 101, 95, 99, 108, 97, 115, 115, 105, 99>> -> "snake_classic"
      [] text = <<114, 97, 99, 101, 95, 103, 97, 109, 101>> -> "race_game"
      [] text = <<75, 77, 87>> -> "KMW"
      [] text = <<116, 101, 97, 109, 95, 97, 109, 121>> -> "team_amy"

\* ScoreSubmission.validate_game_id: length 1..50, then strip().lower(), then
\* alphanumeric apart from "_" and "-".  <<>> stands for ValidationError.
validate_game_id(v) ==
    LET w == Lower(Strip(v))
    IN  IF Len(v) < MIN_TEXT_LENGTH \/ Len(v) > MAX_GAME_ID_LENGTH THEN <<>>
        ELSE IF ~IsAlnum(Without(Without(w, Underscore), Minus)) THEN <<>>
        ELSE <<w>>

\* ScoreSubmission.validate_label: length 1..100, then strip(), not empty.
validate_label(v) ==
    LET w == Strip(v)
    IN  IF Len(v) < MIN_TEXT_LENGTH \/ Len(v) > MAX_LABEL_LENGTH THEN <<>>
        ELSE IF w = <<>> THEN <<>>
        ELSE <<w>>

\* ScoreSubmission.validate_initials on the stripped label.
validate_initials(label, label_type) ==
    label_type = "INITIALS" => (Len(label) = INITIALS_LENGTH /\ IsAlnum(label))

\* score: float = Field(..., ge=0)
ScoreAccepted(score) == ~IsNeg(score)

\* ScoreSubmission.model_validate(body): the set of validated submissions,
\* empty for ValidationError.
model_validate(body) ==
    LET game_id     == validate_game_id(body.game_id)
        label       == validate_label(body.label)
        label_types == IF body.label_type = <<>> THEN {"CUSTOM"}
                       ELSE LabelTypeOf(body.label_type[1])
    IN  IF game_id = <<>> \/ label = <<>> \/ ~ScoreAccepted(body.score) THEN {}
        ELSE {[game_id |-> TextOf(game_id[1]), label |-> TextOf(label[1]),
               label_type |-> lt, score |-> body.score, score_type |-> st] :
                 lt \in {t \in label_types : validate_initials(label[1], t)},
                 st \in ScoreTypeOf(body.score_type)}

ValidBody ==
    [game_id |-> <<115, 110, 97, 107, 101, 95, 99, 108, 97, 115, 115, 105, 99>>, label |-> <<75, 77, 87>>,
     label_type |-> <<<<73, 78, 73, 84, 73, 65, 76, 83>>>>, score |-> Sc(1, 0),
     score_type |-> TagChars("HIGH_SCORE")]

\* Bodies that pass validation: another score, another type, " Race_Game ",
\* a label without label_type.
ValidBodies ==
    {ValidBody,
     [ValidBody EXCEPT !.score = Sc(2, 0)],
     [ValidBody EXCEPT !.score_type = TagChars("FASTEST_TIME")],
     [ValidBody EXCEPT !.game_id = <<32, 82, 97, 99, 101, 95, 71, 97, 109, 101, 32>>],
     [ValidBody EXCEPT !.label = <<116, 101, 97, 109, 95, 97, 109, 121>>, !.label_type = <<>>]}

\* Bodies that fail validation: negative score, "high_score", "snake classic",
\* empty and 51-character game ids, blank label, initials "KMWX" and "K!W",
\* label type "bogus".
InvalidBodies ==
    {[ValidBody EXCEPT !.score = Sc(-1, 0)],
     [ValidBody EXCEPT !.score = Sc(0, -10)],
     [ValidBody EXCEPT !.score_type = DefaultScoreTypeParam],
     [ValidBody EXCEPT !.game_id = <<115, 110, 97, 107, 101, 32, 99, 108, 97, 115, 115, 105, 99>>],
     [ValidBody EXCEPT !.game_id = <<>>],
     [ValidBody EXCEPT !.game_id = [i \in 1..(MAX_GAME_ID_LENGTH + 1) |-> 97]],
     [ValidBody EXCEPT !.label = <<Space, Space>>],
     [ValidBody EXCEPT !.label = <<75, 77, 87, 88>>],
     [ValidBody EXCEPT !.label = <<75, 33, 87>>],
     [ValidBody EXCEPT !.label_type = <<(<<98, 111, 103, 117, 115>>)>>]}

handler_submit_score(body) ==
    IF model_validate(body) = {} THEN BadRequest("POST", body)
    ELSE \E submission \in model_validate(body) :
            LET score_record ==
                    [game_id |-> submission.game_id, label |-> submission.label,
                     label_type |-> submission.label_type, score |-> submission.score,
                     score_type |-> submission.score_type,
                     created_at_timestamp |-> now]
            IN  /\ Cardinality(submitted) < MaxSubmits
                /\ table' = PutItem(table, Item(score_record))
                /\ submitted' = submitted \cup {score_record}
                /\ now' = now + 1
                /\ result' = [NoResult EXCEPT !.op = "submit_score"]
                /\ response' = [request |-> "POST", params |-> body, status |-> 200,
                                db_called |-> TRUE]
                /\ UNCHANGED <<calls, service>>

(***************************************************************************)
(* LeaderboardService.submit_score (service.py).  The call is given a      *)
(* validated submission; store_fails says whether the database call of     *)
(* this invocation raises RuntimeError (its put_item failed).              *)
(***************************************************************************)
NoService == [op |-> "none", submission |-> <<>>, called_at |-> 0, handed |-> <<>>,
              db_raised |-> "none", raised |-> "none", returned |-> <<>>]

\* The validated submissions a caller can hand to the service.
Submissions == UNION {model_validate(b) : b \in ValidBodies}

\* Mutant of utc_now: a constant instead of the clock.
utc_now_Epoch(clock) == 0

\* datetime.now(UTC)
utc_now(clock) == clock

\* Mutant of Propagate: the service swallows the error of the database.
Propagate_Suppressed(db_raised) == "none"

\* The service has no try/except: what the database raises reaches the caller.
Propagate(db_raised) == db_raised

\* The confirmation dictionary of a successful submission.
Confirmation(submission) ==
    [message |-> "Score submitted successfully", game_id |-> submission.game_id,
     label |-> submission.label, label_type |-> submission.label_type,
     score |-> StrFloat(submission.score), score_type |-> submission.score_type]

service_submit_score(submission, store_fails) ==
    LET score_record ==
            [game_id |-> submission.game_id, label |-> submission.label,
             label_type |-> submission.label_type, score |-> submission.score,
             score_type |-> submission.score_type,
             created_at_timestamp |-> utc_now(now)]
        db_raised == IF store_fails THEN OnClientError("submit_score") ELSE "none"
        raised    == Propagate(db_raised)
    IN  /\ now <= MaxCalls
        /\ now' = now + 1
        /\ IF store_fails
           THEN /\ result' = Failed("submit_score", "", "", 0)
                /\ UNCHANGED <<table, submitted>>
           ELSE /\ table' = PutItem(table, Item(score_record))
                /\ submitted' = submitted \cup {score_record}
                /\ result' = [NoResult EXCEPT !.op = "submit_score"]
        /\ service' = [op |-> "submit_score", submission |-> submission,
                       called_at |-> now, handed |-> <<score_record>>,
                       db_raised |-> db_raised, raised |-> raised,
                       returned |-> IF raised = "none" THEN <<Confirmation(submission)>>
                                    ELSE <<>>]
        /\ UNCHANGED <<response, calls>>

Init ==
    /\ table = {}
    /\ submitted = {}
    /\ result = NoResult
    /\ now = 1
    /\ response = NoResponse
    /\ calls = NoCalls
    /\ service = NoService

Next ==
    \/ \E r \in ScoreRecords : submit_score(r)
    \/ \E g \in Games, t \in LeaderboardType, l \in Limits : get_leaderboard(g, t, l)

Spec == Init /\ [][Next]_vars

\* Submissions only, with scores from the whole supported range.
NextKey == \E r \in KeyRecords : submit_score(r)

SpecKey == Init /\ [][NextKey]_vars

\* The database called with any limit.
NextLimits ==
    \/ \E r \in ScoreRecord({"snake_classic"}, Submitters, Scores, {"HIGH_SCORE"}) :
           submit_score(r)
    \/ \E t \in LeaderboardType, l \in AnyLimits : get_leaderboard("snake_classic", t, l)

SpecLimits == Init /\ [][NextLimits]_vars

\* Leaderboard requests of every kind to the HTTP handler, after a few
\* accepted submissions.
NextHandler ==
    \/ \E b \in {ValidBody, [ValidBody EXCEPT !.score = Sc(2, 0)]} :
           handler_submit_score(b)
    \/ \E g \in Games, q \in QueryStrings : handler_get_leaderboard(g, q)

SpecHandler == Init /\ [][NextHandler]_vars

\* "100"
FullLimitParam == <<49, 48, 48>>

\* Submissions of every kind to the HTTP handler, and requests for the
\* whole leaderboard of a score type.
NextPost ==
    \/ \E b \in ValidBodies \cup InvalidBodies : handler_submit_score(b)
    \/ \E g \in Games, t \in {"HIGH_SCORE", "FASTEST_TIME"} :
           handler_get_leaderboard(g, [score_type |-> <<TagChars(t)>>,
                                       limit |-> <<FullLimitParam>>])

SpecPost == Init /\ [][NextPost]_vars

\* A table with any of the legacy items in it, new submissions, and the
\* listing of score types.
InitLegacy ==
    /\ table \in SUBSET LegacyItems
    /\ submitted = {}
    /\ result = NoResult
    /\ now = 1
    /\ response = NoResponse
    /\ calls = NoCalls
    /\ service = NoService

NextLegacy ==
    \/ \E r \in ScoreRecord(Games, {[label |-> "KMW", label_type |-> "INITIALS", at |-> 1]},
                             {Sc(1, 0)}, ScoreType) : submit_score(r)
    \/ \E g \in Games : get_all_score_types_for_game(g)

SpecLegacy == InitLegacy /\ [][NextLegacy]_vars

\* Every database operation, with the store answering or failing.
FailRecords == ScoreRecord({"snake_classic"}, Submitters, {Sc(1, 0), Sc(2, 0)}, {"HIGH_SCORE"})

NextFail ==
    \/ \E r \in FailRecords : submit_score(r)
    \/ \E r \in FailRecords : submit_score_client_error(r)
    \/ \E t \in LeaderboardType, l \in Limits : get_leaderboard("snake_classic", t, l)
    \/ \E t \in LeaderboardType, l \in Limits :
           get_leaderboard_client_error("snake_classic", t, l)
    \/ get_all_score_types_for_game("snake_classic")
    \/ get_all_score_types_for_game_client_error("snake_classic")

SpecFail == Init /\ [][NextFail]_vars

\* Two concurrent submissions for one game, followed by reads.
ConcurrentRecords ==
    ScoreRecord({"snake_classic"}, Submitters, {Sc(1, 0), Sc(1, 2), Sc(2, 0)},
                {"HIGH_SCORE", "FASTEST_TIME"})

NextConcurrent ==
    \/ \E c \in Callers, r \in ConcurrentRecords : call_submit_score(c, r)
    \/ \E c \in Callers : put_item(c)

SpecConcurrent == Init /\ [][NextConcurrent]_vars

\* Submissions and both read operations.
NextReads ==
    \/ \E r \in ScoreRecord(Games, Submitters, {Sc(1, 0), Sc(2, 0)}, {"HIGH_SCORE"}) :
           submit_score(r)
    \/ \E g \in Games, t \in LeaderboardType, l \in Limits : get_leaderboard(g, t, l)
    \/ \E g \in Games : get_all_score_types_for_game(g)

SpecReads == Init /\ [][NextReads]_vars

\* Calls on the service, with the store answering or failing.
NextService ==
    \E submission \in Submissions, store_fails \in BOOLEAN :
        service_submit_score(submission, store_fails)

SpecService == Init /\ [][NextService]_vars

\* Three submissions in a row for one game, with scores that differ in the
\* fourth decimal and with two score types.
ReorderSubmissions ==
    [game_id : {"snake_classic"}, label : {"KMW"}, label_type : {"INITIALS", "CUSTOM"},
     score : {Sc(1, 0), Sc(1, 2)}, score_type : {"HIGH_SCORE", "FASTEST_TIME"}]

NextReorder ==
    \E submission \in ReorderSubmissions, store_fails \in BOOLEAN :
        service_submit_score(submission, store_fails)

SpecReorder == Init /\ [][NextReorder]_vars

\* A table with any of the items of unknown label type in it, new
\* submissions and leaderboard reads.
InitLabels ==
    /\ table \in SUBSET LegacyLabelItems
    /\ submitted = {}
    /\ result = NoResult
    /\ now = 1
    /\ response = NoResponse
    /\ calls = NoCalls
    /\ service = NoService

NextLabels ==
    \/ \E r \in ScoreRecord({"snake_classic"}, Submitters, {Sc(1, 0), Sc(2, 0)},
                             {"HIGH_SCORE"}) : submit_score(r)
    \/ \E t \in LeaderboardType, l \in Limits : get_leaderboard("snake_classic", t, l)

SpecLabels == InitLabels /\ [][NextLabels]_vars

\* Submissions only, with scores inside and outside the supported range.
NextRange == \E r \in RangeRecords : submit_score(r)

SpecRange == Init /\ [][NextRange]_vars

(***************************************************************************)
(* Vocabulary of the properties.                                           *)
(***************************************************************************)
Got == result.op = "get_leaderboard"

ValidLimit == result.limit \in MIN_LIMIT..MAX_LIMIT

Entries == result.entries

\* The stored items of the game the last get_leaderboard asked for.
Partition == {it \in table : it.game_id = result.game_id}

\* An entry shows the label, label type, score and timestamp of a record.
Shows(e, r) ==
    /\ e.label = r.label
    /\ e.label_type = r.label_type
    /\ e.score = r.score
    /\ e.created_at_timestamp = r.created_at_timestamp

HigherIsBetter(t) == t \in {"HIGH_SCORE", "LONGEST_TIME"}

\* a ranks strictly better than b under ranking type t.
StrictlyBetter(t, a, b) == IF HigherIsBetter(t) THEN ScoreLT(b, a) ELSE ScoreLT(a, b)

Min(a, b) == IF a < b THEN a ELSE b

\* MAX_SCORE - score, for 0 <= score <= MAX_SCORE.
MaxMinus(s) ==
    IF s.frac = 0 THEN Sc(MAX_SCORE - s.whole, 0)
    ELSE Sc(MAX_SCORE - s.whole - 1, 10000 - s.frac)

\* The score has at most three decimals and lies in 0..MAX_SCORE.
ValidKeyScore(s) ==
    /\ s.frac % 10 = 0
    /\ ~IsNeg(s)
    /\ (s.whole < MAX_SCORE \/ (s.whole = MAX_SCORE /\ s.frac = 0))

\* The score lies in the supported range 0..MAX_SCORE.
ScoreInRange(s) ==
    /\ ~IsNeg(s)
    /\ (s.whole < MAX_SCORE \/ (s.whole = MAX_SCORE /\ s.frac = 0))

(***************************************************************************)
(* C1: for a limit in 1..100 the entries get_leaderboard returns are in    *)
(* non-increasing score order for HIGH_SCORE and LONGEST_TIME and in       *)
(* non-decreasing score order for FASTEST_TIME.                            *)
(***************************************************************************)
C1_ScoreOrder ==
    (Got /\ ValidLimit) =>
        \A i \in DOMAIN Entries : \A j \in DOMAIN Entries :
            i < j =>
                IF HigherIsBetter(result.leaderboard_type)
                THEN ~ScoreLT(Entries[i].score, Entries[j].score)
                ELSE ~ScoreLT(Entries[j].score, Entries[i].score)

\* A FASTEST_TIME leaderboard of two entries with different scores.
C1_Witness ==
    /\ Got /\ ValidLimit
    /\ result.leaderboard_type = "FASTEST_TIME"
    /\ Len(Entries) = 2
    /\ ScoreLT(Entries[1].score, Entries[2].score)

(***************************************************************************)
(* C2: any two returned entries with equal scores appear in ascending      *)
(* order of their submission timestamps.                                   *)
(***************************************************************************)
C2_TiesByTimestamp ==
    Got =>
        \A i \in DOMAIN Entries : \A j \in DOMAIN Entries :
            (i < j /\ Entries[i].score = Entries[j].score) =>
                Entries[i].created_at_timestamp <= Entries[j].created_at_timestamp

(***************************************************************************)
(* C3: a get_leaderboard for a game and score type whose limit is at least *)
(* the number of submissions made for that game and score type returns one *)
(* entry per such submission; none is missing.  Stated for a game all of   *)
(* whose submissions have the requested score type, so that a violation    *)
(* shows a lost submission and not an entry of another score type.         *)
(***************************************************************************)
C3_NoSubmissionMissing ==
    Got =>
        LET game == {r \in submitted : r.game_id = result.game_id}
            subs == {r \in game : r.score_type = result.leaderboard_type}
        IN  (ValidLimit /\ result.limit >= Cardinality(subs) /\ game = subs) =>
                /\ Len(Entries) = Cardinality(subs)
                /\ \A r \in subs : \E i \in DOMAIN Entries : Shows(Entries[i], r)

(***************************************************************************)
(* C4: a record persisted by submit_score is in the store, with all its    *)
(* fields unchanged, in every later state.                                 *)
(***************************************************************************)
C4_RecordsImmutable == \A r \in submitted : Item(r) \in table

(***************************************************************************)
(* C5: get_leaderboard for a game and a score type returns only entries of *)
(* records submitted with that score type.                                 *)
(***************************************************************************)
C5_OnlyRequestedType ==
    Got =>
        \A i \in DOMAIN Entries :
            \E r \in submitted :
                /\ r.game_id = result.game_id
                /\ r.score_type = result.leaderboard_type
                /\ Shows(Entries[i], r)

(***************************************************************************)
(* C6: get_leaderboard for game G returns only entries of records          *)
(* submitted with game_id G, and no more entries than G has records.       *)
(***************************************************************************)
C6_OnlyRequestedGame ==
    Got =>
        /\ \A i \in DOMAIN Entries :
               \E r \in submitted : r.game_id = result.game_id /\ Shows(Entries[i], r)
        /\ Len(Entries) <= Cardinality(Partition)

\* A non-empty leaderboard of one game while the other game has records too.
C6_Witness ==
    /\ Got
    /\ Len(Entries) > 0
    /\ \E r \in submitted : r.game_id # result.game_id

(***************************************************************************)
(* C7: for a limit in 1..100 get_leaderboard returns exactly min(n, limit) *)
(* entries, n being the number of records it ranks, and the i-th entry has *)
(* rank i.                                                                 *)
(***************************************************************************)
C7_LengthAndRanks ==
    (Got /\ ValidLimit) =>
        /\ Len(Entries) = Min(Cardinality(Partition), result.limit)
        /\ \A i \in DOMAIN Entries : Entries[i].rank = i

\* Two records ranked, one returned.
C7_Witness ==
    /\ Got /\ ValidLimit
    /\ Cardinality(Partition) = 2
    /\ result.limit = 1
    /\ Len(Entries) = 1

(***************************************************************************)
(* C8: when more records exist than limit, every stored record of the game *)
(* that ranks strictly better than some returned entry is itself returned. *)
(***************************************************************************)
C8_BestKept ==
    (Got /\ ValidLimit /\ Cardinality(Partition) > result.limit) =>
        \A it \in Partition : \A i \in DOMAIN Entries :
            StrictlyBetter(result.leaderboard_type, RawEntry(it).score, Entries[i].score)
                => \E j \in DOMAIN Entries : Shows(Entries[j], RawEntry(it))

\* A record is left out that ranks strictly worse than the one returned.
C8_Witness ==
    /\ Got /\ ValidLimit
    /\ Cardinality(Partition) > result.limit
    /\ \E it \in Partition :
           StrictlyBetter(result.leaderboard_type, Entries[1].score, RawEntry(it).score)

(***************************************************************************)
(* C9: the sort key submit_score writes is <score_type>#<encoded score>,   *)
(* the encoded score being the 15-character zero-padded 3-decimal form of  *)
(* the score for FASTEST_TIME and of 999999999 minus the score for         *)
(* HIGH_SCORE and LONGEST_TIME.                                            *)
(***************************************************************************)
C9_SortKeyEncoding ==
    \A r \in submitted :
        \E it \in table :
            /\ it.game_id = r.game_id
            /\ it.sort_key = TagChars(r.score_type) \o <<Hash>> \o
                   Format015_3f(IF r.score_type = "FASTEST_TIME" THEN r.score
                                ELSE MaxMinus(r.score))

(***************************************************************************)
(* C10: for valid scores s1 < s2 of score type HIGH_SCORE or LONGEST_TIME  *)
(* the sort key of s1 is lexicographically greater than the sort key of s2.*)
(***************************************************************************)
C10_DescendingKeys ==
    \A a \in table : \A b \in table :
        LET s1 == ParseFloat(a.score)
            s2 == ParseFloat(b.score)
        IN  (/\ a.score_type = b.score_type
             /\ HigherIsBetter(a.score_type)
             /\ ValidKeyScore(s1) /\ ValidKeyScore(s2)
             /\ ScoreLT(s1, s2)) => StrLess(b.sort_key, a.sort_key)

(***************************************************************************)
(* C11: for valid scores s1 < s2 of score type FASTEST_TIME the sort key   *)
(* of s1 is lexicographically smaller than the sort key of s2.             *)
(***************************************************************************)
C11_AscendingKeys ==
    \A a \in table : \A b \in table :
        LET s1 == ParseFloat(a.score)
            s2 == ParseFloat(b.score)
        IN  (/\ a.score_type = "FASTEST_TIME" /\ b.score_type = "FASTEST_TIME"
             /\ ValidKeyScore(s1) /\ ValidKeyScore(s2)
             /\ ScoreLT(s1, s2)) => StrLess(a.sort_key, b.sort_key)

\* Two stored FASTEST_TIME scores whose integer parts differ in length.
C11_Witness ==
    \E a \in table : \E b \in table :
        LET s1 == ParseFloat(a.score)
            s2 == ParseFloat(b.score)
        IN  /\ a.score_type = "FASTEST_TIME" /\ b.score_type = "FASTEST_TIME"
            /\ ValidKeyScore(s1) /\ ValidKeyScore(s2)
            /\ ScoreLT(s1, s2)
            /\ Len(Digits(s1.whole)) < Len(Digits(s2.whole))

(***************************************************************************)
(* C12: submit_score of a score that is negative or greater than           *)
(* 999999999 fails with an encoding error and writes no record: no call    *)
(* with such a score returns, and no stored item holds such a score.       *)
(***************************************************************************)
C12_OutOfRangeRejected ==
    /\ \A r \in submitted : ScoreInRange(r.score)
    /\ \A it \in table : ScoreInRange(ParseFloat(it.score))

(***************************************************************************)
(* C13: get_leaderboard called with limit < 1 or limit > 100 fails with an *)
(* invalid-limit error and returns no entries: a call that returned a list *)
(* had a limit in 1..100.                                                  *)
(***************************************************************************)
C13_InvalidLimitRejected == (Got /\ result.raised = "none") => ValidLimit

(***************************************************************************)
(* C14: a GET leaderboard request with an unknown score_type, a limit that *)
(* is not an integer, or a limit outside 1..100 is answered with status    *)
(* 400 and the leaderboard is not fetched from the database.               *)
(***************************************************************************)
BadGetRequest(query) ==
    \/ query.score_type \in Optional(UnknownScoreTypeParams) \ {<<>>}
    \/ query.limit \in Optional(LimitParamsOutOfRange \cup LimitParamsNotInteger) \ {<<>>}

C14_BadGetAnswered400 ==
    (response.request = "GET" /\ BadGetRequest(response.params))
        => (response.status = 400 /\ ~response.db_called)

\* A limit of 150 with a known score type was answered, after an earlier
\* request had fetched a leaderboard.
C14_Witness ==
    /\ response.request = "GET"
    /\ response.params = [score_type |-> <<TagChars("HIGH_SCORE")>>,
                          limit |-> <<(<<49, 53, 48>>)>>]
    /\ response.status = 400
    /\ Got /\ Entries # <<>>

(***************************************************************************)
(* C15: a POST score request whose body fails validation is answered with  *)
(* status 400 and writes nothing to the store; after any mix of valid and  *)
(* invalid requests the whole leaderboard of a game and score type holds   *)
(* exactly the valid submissions of that game and score type.              *)
(***************************************************************************)
C15_InvalidPostWritesNothing ==
    (response'.request = "POST" /\ response'.params \in InvalidBodies)
        => (response'.status = 400 /\ table' = table)

C15_ExactlyValidSubmissions ==
    LET subs == {r \in submitted : /\ r.game_id = result.game_id
                                   /\ r.score_type = result.leaderboard_type}
    IN  (Got /\ result.limit >= Cardinality(subs))
            => /\ Len(Entries) = Cardinality(subs)
               /\ \A r \in subs : \E i \in 1..Len(Entries) : Shows(Entries[i], r)

EncodedScore(sort_key) ==
    LET p == CHOOSE i \in 1..Len(sort_key) : sort_key[i] = Hash
    IN  SubSeq(sort_key, p + 1, Len(sort_key))

C17_EntriesAreStoredRecords ==
    Got =>
        \A i \in 1..Len(Entries) :
            LET same == {j \in 1..Len(Entries) :
                            [Entries[j] EXCEPT !.rank = 0] = [Entries[i] EXCEPT !.rank = 0]}
                src  == {it \in Partition :
                            \E r \in submitted : Item(r) = it /\ Shows(Entries[i], r)}
            IN  src # {} /\ Cardinality(same) <= Cardinality(src)

\* A score of 1.0002 was submitted and is returned next to another entry.
C17_Witness ==
    /\ Got
    /\ Len(Entries) = 2
    /\ \E i \in 1..Len(Entries), r \in submitted :
           r.score = Sc(1, 2) /\ Shows(Entries[i], r)

(***************************************************************************)
(* C18: get_all_score_types_for_game returns exactly the known score types *)
(* (HIGH_SCORE, FASTEST_TIME, LONGEST_TIME) that occur among the game's    *)
(* stored records, each once; a record with another score_type value is    *)
(* skipped and the call does not fail.                                     *)
(***************************************************************************)
C18_KnownTypesOnce ==
    result.op = "get_all_score_types_for_game" =>
        /\ result.raised = "none"
        /\ {Entries[i] : i \in 1..Len(Entries)}
               = {t \in ScoreType : \E it \in Partition : it.score_type = t}
        /\ \A i, j \in 1..Len(Entries) : Entries[i] = Entries[j] => i = j

\* Two known score types were listed for a game that also holds a record
\* with an unknown score_type value.
C18_Witness ==
    /\ result.op = "get_all_score_types_for_game"
    /\ Len(Entries) = 2
    /\ \E it \in Partition : it.score_type \notin ScoreType

(***************************************************************************)
(* C19: get_leaderboard for a game with no stored records returns an empty *)
(* list, for every ranking type and every valid limit, and raises nothing. *)
(***************************************************************************)
C19_EmptyGameEmptyList ==
    (Got /\ ValidLimit /\ Partition = {}) => (Entries = <<>> /\ result.raised = "none")

\* The leaderboard of a game without records was read while the other game
\* had records.
C19_Witness ==
    /\ Got /\ ValidLimit
    /\ Partition = {}
    /\ table # {}
    /\ Entries = <<>>

(***************************************************************************)
(* C20: when put_item raises ClientError, submit_score raises RuntimeError *)
(* and the store holds what it held before the call; when the query        *)
(* raises, get_leaderboard and get_all_score_types_for_game raise          *)
(* RuntimeError and return no list.                                        *)
(***************************************************************************)
C20_FailedWriteChangesNothing ==
    (result'.op = "submit_score" /\ result'.client_error)
        => (result'.raised = "RuntimeError" /\ table' = table)

C20_FailedQueryRaises ==
    (result.op \in {"get_leaderboard", "get_all_score_types_for_game"}
     /\ result.client_error)
        => (result.raised = "RuntimeError" /\ Entries = <<>>)

C20_StoreFailureRaisesRuntimeError ==
    [][C20_FailedWriteChangesNothing]_vars /\ []C20_FailedQueryRaises

\* A write failed after two records had been stored, and both are still
\* in the store.
C20_Witness ==
    /\ result.op = "submit_score"
    /\ result.client_error
    /\ result.raised = "RuntimeError"
    /\ Cardinality(table) = 2

(***************************************************************************)
(* C21: when two submit_score calls for the same game with different       *)
(* storage keys run concurrently, both records are in the store once both  *)
(* calls have completed, whatever the interleaving, and the write of one   *)
(* call leaves the record of the other as it was.                          *)
(***************************************************************************)
Done(c) == calls[c].pc = "done"

SameKey(c, d) ==
    /\ calls[c].item.game_id = calls[d].item.game_id
    /\ calls[c].item.sort_key = calls[d].item.sort_key

C21_BothStored ==
    \A c, d \in Callers :
        (/\ c # d /\ Done(c) /\ Done(d)
         /\ calls[c].item.game_id = calls[d].item.game_id
         /\ ~SameKey(c, d))
            => (Item(calls[c].score_record) \in table /\ Item(calls[d].score_record) \in table)

C21_OtherRecordUntouched ==
    \A c, d \in Callers :
        (/\ c # d /\ Done(d) /\ calls[c].pc = "put_item" /\ calls'[c].pc = "done"
         /\ ~SameKey(c, d) /\ calls[d].item \in table)
            => calls[d].item \in table'

C21_ConcurrentWritesIndependent == []C21_BothStored /\ [][C21_OtherRecordUntouched]_vars

\* Both calls had built their items before either wrote, the keys differ,
\* and both have completed.
C21_Witness ==
    /\ Done("a") /\ Done("b")
    /\ ~SameKey("a", "b")
    /\ calls["a"].score_record.score_type = calls["b"].score_record.score_type
    /\ Cardinality(table) = 2

RECURSIVE SubmitAll(_, _)
SubmitAll(tbl, score_records) ==
    IF score_records = <<>> THEN tbl
    ELSE SubmitAll(PutItem(tbl, Item(Head(score_records))), Tail(score_records))

C23_OrderIndependent ==
    Got =>
        \A order \in ListOf(submitted) :
            Leaderboard(SubmitAll({}, order), result.game_id, result.leaderboard_type,
                        result.limit) = Entries

(***************************************************************************)
(* C24: get_leaderboard and get_all_score_types_for_game leave the store   *)
(* unchanged (the same records with the same fields after the call as      *)
(* before), and two consecutive get_leaderboard calls with the same        *)
(* arguments and no submission in between return identical lists.          *)
(***************************************************************************)
C24_ReadStep ==
    result'.op \in {"get_leaderboard", "get_all_score_types_for_game"}
        => /\ table' = table
           /\ (/\ Got /\ result'.op = "get_leaderboard"
               /\ result'.game_id = result.game_id
               /\ result'.leaderboard_type = result.leaderboard_type
               /\ result'.limit = result.limit)
                  => result'.entries = Entries

HasPrefix(str, prefix) ==
    Len(prefix) <= Len(str) /\ SubSeq(str, 1, Len(prefix)) = prefix

\* The records of the result's game under the prefix of its score type, in
\* ascending key order.
PrefixListing ==
    LET items == AscendingBySortKey(
                     {it \in Partition :
                          HasPrefix(it.sort_key, TagChars(result.leaderboard_type) \o <<Hash>>)})
    IN  [i \in 1..Len(items) |-> RawEntry(items[i])]

C25_KeyOrderIsRankOrder ==
    (Got /\ ValidLimit) =>
        [i \in 1..Len(Entries) |->
            [label |-> Entries[i].label, label_type |-> Entries[i].label_type,
             score |-> Entries[i].score,
             created_at_timestamp |-> Entries[i].created_at_timestamp]]
            = SliceTo(PrefixListing, result.limit)

(***************************************************************************)
(* C26: LeaderboardService.submit_score calls the database's submit_score  *)
(* once per call and does not retry: if the database raises RuntimeError   *)
(* the same error reaches the caller, no confirmation is returned and the  *)
(* store is not written; if it succeeds the confirmation is returned.      *)
(***************************************************************************)
C26_Step ==
    service'.op = "submit_score" =>
        /\ Len(service'.handed) = 1
        /\ IF service'.db_raised = "RuntimeError"
           THEN /\ service'.raised = "RuntimeError"
                /\ service'.returned = <<>>
                /\ table' = table
           ELSE /\ service'.raised = "none"
                /\ service'.returned = <<Confirmation(service'.submission)>>
                /\ table' = PutItem(table, Item(service'.handed[1]))

C26_NoRetryNoSuppress == [][C26_Step]_vars

\* The database raised after an earlier submission had been stored.
C26_Witness ==
    /\ service.op = "submit_score"
    /\ service.db_raised = "RuntimeError"
    /\ service.raised = "RuntimeError"
    /\ table # {}

(***************************************************************************)
(* C27: the ScoreRecord handed to the database has the game_id, label,     *)
(* label_type, score and score_type of the validated submission and the    *)
(* server's UTC time at the call as its timestamp.                         *)
(***************************************************************************)
C27_RecordFromSubmission ==
    service.op = "submit_score" =>
        /\ Len(service.handed) = 1
        /\ service.handed[1] =
               [game_id |-> service.submission.game_id,
                label |-> service.submission.label,
                label_type |-> service.submission.label_type,
                score |-> service.submission.score,
                score_type |-> service.submission.score_type,
                created_at_timestamp |-> service.called_at]

\* The second call was made at a later time than the first and its record
\* is stored with that time.
C27_Witness ==
    /\ service.op = "submit_score"
    /\ service.called_at = 2
    /\ service.raised = "none"
    /\ \E it \in table : it = Item(service.handed[1]) /\ FromIsoFormat(it.timestamp) = 2

(***************************************************************************)
(* C28: a GET leaderboard request that omits the score_type and limit      *)
(* query parameters is served as the HIGH_SCORE leaderboard with limit 10; *)
(* it is not answered with status 400.                                     *)
(***************************************************************************)
C28_DefaultsServed ==
    (response.request = "GET" /\ response.params = [score_type |-> <<>>, limit |-> <<>>])
        => /\ response.status = 200
           /\ response.db_called
           /\ Got
           /\ result.leaderboard_type = "HIGH_SCORE"
           /\ result.limit = 10

(***************************************************************************)
(* C29: submitting a new record never reorders existing entries: two       *)
(* records that are in the full leaderboard both before and after a        *)
(* submit_score keep their relative order, and the rank of each stays the  *)
(* same or grows by exactly 1.                                             *)
(***************************************************************************)
Unranked(e) == [e EXCEPT !.rank = 0]

\* The pairs <<rank before, rank after>> of the records that are in both
\* full leaderboards (each identified by its label, label_type, score and
\* timestamp, which no other entry of the list shares).
KeptRanks(before, after) ==
    {p \in (1..Len(before)) \X (1..Len(after)) :
        /\ Unranked(before[p[1]]) = Unranked(after[p[2]])
        /\ \A i \in 1..Len(before) : Unranked(before[i]) = Unranked(before[p[1]]) => i = p[1]
        /\ \A j \in 1..Len(after) : Unranked(after[j]) = Unranked(after[p[2]]) => j = p[2]}

C29_Step ==
    result'.op = "submit_score" =>
        \A g \in Games, t \in LeaderboardType :
            LET kept == KeptRanks(Leaderboard(table, g, t, MAX_LIMIT),
                                  Leaderboard(table', g, t, MAX_LIMIT))
            IN  /\ \A p \in kept : p[2] \in {p[1], p[1] + 1}
                /\ \A p, q \in kept : p[1] < q[1] => p[2] < q[2]

C29_SubmitKeepsOrder == [][C29_Step]_vars

(***************************************************************************)
(* C30: when a stored record's label_type is missing or is not one of      *)
(* INITIALS, USERNAME, TEAM_NAME, CUSTOM, get_leaderboard still returns an *)
(* entry for that record, with label_type CUSTOM, and does not fail; a     *)
(* record with a known label_type keeps it.                                *)
(***************************************************************************)
\* The label type the entry of a stored item has to show.
ShownLabelType(it) ==
    IF "label_type" \in DOMAIN it /\ it.label_type \in LabelType THEN it.label_type
    ELSE "CUSTOM"

C30_UnknownLabelTypeIsCustom ==
    (Got /\ result.limit >= Cardinality(Partition)) =>
        /\ result.raised = "none"
        /\ Len(Entries) = Cardinality(Partition)
        /\ \A it \in Partition :
               \E i \in 1..Len(Entries) :
                   /\ Entries[i].label = it.label
                   /\ Entries[i].score = ParseFloat(it.score)
                   /\ Entries[i].label_type = ShownLabelType(it)

\* The leaderboard shows a record without label_type, one with label_type
\* "initials" and one that was submitted as a TEAM_NAME.
C30_Witness ==
    /\ Got
    /\ Len(Entries) = 3
    /\ LegacyLabelItems \subseteq table
    /\ \E i \in 1..Len(Entries) : Entries[i].label_type = "TEAM_NAME"
    /\ Cardinality({i \in 1..Len(Entries) : Entries[i].label_type = "CUSTOM"}) = 2

====
